---- MODULE Spec2Model ----
(***************************************************************************)
(* A model of the GA4 marketing ETL pipeline: src/src/etl.py (value        *)
(* cleaning, transform_data, load_data, run_etl) and src/src/scheduler.py  *)
(* (ETLScheduler), with the "Run ETL Now" button of src/src/dashboard.py.  *)
(*                                                                         *)
(* Conventions                                                             *)
(*  - A Python str is a sequence of one-character strings, so that strip,  *)
(*    slicing and f-string concatenation are computed, not assumed.        *)
(*  - None (Python None and the float NaN pandas uses for a missing cell)  *)
(*    is the one-element sequence None, whose element is no character.     *)
(*  - A float amount is an integer number of hundredths; an optional       *)
(*    number is <<>> (None) or <<n>>.                                      *)
(*  - A dict is a record [keys, val]: keys in insertion order, val the     *)
(*    mapping.                                                             *)
(***************************************************************************)
EXTENDS Integers, Sequences, FiniteSets, TLC

\* ------------------------------------------------------------------------
\* Strings
\* ------------------------------------------------------------------------

None == <<"<None>">>

Digits == {"0", "1", "2", "3", "4", "5", "6", "7", "8", "9"}

Whitespace == {" "}

DigitVal(c) ==
    CASE c = "0" -> 0 [] c = "1" -> 1 [] c = "2" -> 2 [] c = "3" -> 3
      [] c = "4" -> 4 [] c = "5" -> 5 [] c = "6" -> 6 [] c = "7" -> 7
      [] c = "8" -> 8 [] c = "9" -> 9

\* str.strip(): drop leading and trailing whitespace.
Strip(s) ==
    LET keep == {i \in 1..Len(s) : s[i] \notin Whitespace}
    IN  IF keep = {} THEN <<>>
        ELSE LET lo == CHOOSE i \in keep : \A j \in keep : i <= j
                 hi == CHOOSE i \in keep : \A j \in keep : j <= i
             IN  SubSeq(s, lo, hi)

\* s[:n]
Prefix(s, n) == SubSeq(s, 1, IF Len(s) < n THEN Len(s) ELSE n)

\* The value of a string of digits.
RECURSIVE DigitsValue(_)
DigitsValue(s) ==
    IF s = <<>> THEN 0
    ELSE 10 * DigitsValue(SubSeq(s, 1, Len(s) - 1)) + DigitVal(s[Len(s)])

AllDigits(s) == s # <<>> /\ \A i \in 1..Len(s) : s[i] \in Digits

NULL_VALUES ==
    { <<"<", "O", "t", "h", "e", "r", ">">>,
      <<"N", "U", "L", "L">>,
      <<"n", "u", "l", "l">>,
      <<"(", "n", "o", "t", " ", "s", "e", "t", ")">>,
      <<"n", "o", "t", " ", "s", "e", "t">>,
      <<>>,
      <<"N", "a", "N">> }

\* clean_val: None for a missing cell or a null marker, else the stripped text.
clean_val(val) ==
    IF val = None THEN None
    ELSE LET v == Strip(val)
         IN  IF v \in NULL_VALUES \/ v = <<"n", "a", "n">> THEN None ELSE v

\* float(val) on the literals of the model's alphabet: digits with an optional
\* fraction of one or two digits; the result is in hundredths.  Any other text
\* raises ValueError, which clean_num turns into None.
IsFloatLiteral(s) ==
    \/ AllDigits(s)
    \/ \E d \in 1..Len(s) :
          /\ s[d] = "."
          /\ AllDigits(SubSeq(s, 1, d - 1))
          /\ Len(s) - d \in 1..2
          /\ AllDigits(SubSeq(s, d + 1, Len(s)))

FloatValue(s) ==
    IF AllDigits(s) THEN 100 * DigitsValue(s)
    ELSE LET d == CHOOSE i \in 1..Len(s) : s[i] = "."
             frac == SubSeq(s, d + 1, Len(s))
         IN  100 * DigitsValue(SubSeq(s, 1, d - 1))
               + (IF Len(frac) = 1 THEN 10 * DigitsValue(frac) ELSE DigitsValue(frac))

\* clean_num: <<>> is None, <<n>> the parsed number.
clean_num(val) ==
    LET v == clean_val(val)
    IN  IF v = None THEN <<>>
        ELSE IF IsFloatLiteral(v) THEN <<FloatValue(v)>> ELSE <<>>

\* Python truthiness of an optional number: None and 0.0 are false.
Truthy(n) == n # <<>> /\ n[1] # 0

\* x or default, for a cleaned string (None and '' are false).
OrElse(x, default) == IF x = None \/ x = <<>> THEN default ELSE x

\* ------------------------------------------------------------------------
\* transform_data
\* ------------------------------------------------------------------------

\* The columns of a raw row that transform_data reads into the aggregates.
\* Every cell is None or text.  (The geo, device, category and price columns
\* are copied into the raw event and used nowhere else; they are left out.)
Columns ==
    { "event_name", "event_timestamp", "event_date", "user_pseudo_id",
      "source", "medium", "transaction_id", "purchase_revenue",
      "item_id", "item_name", "quantity", "item_revenue" }

page_view == <<"p", "a", "g", "e", "_", "v", "i", "e", "w">>
purchase == <<"p", "u", "r", "c", "h", "a", "s", "e">>
view_item == <<"v", "i", "e", "w", "_", "i", "t", "e", "m">>
add_to_cart == <<"a", "d", "d", "_", "t", "o", "_", "c", "a", "r", "t">>
begin_checkout ==
    <<"b", "e", "g", "i", "n", "_", "c", "h", "e", "c", "k", "o", "u", "t">>
unknown == <<"u", "n", "k", "n", "o", "w", "n">>
none_label == <<"(", "n", "o", "n", "e", ")">>

\* datetime.now().date(), as str() prints it.
Today == <<"2", "0", "2", "6", "-", "1", "1", "-", "0", "3">>

\* Series.ffill() of one column over rows lo..hi, entered with the carry value
\* (the last non-missing cell before lo, or None): a missing cell takes the
\* carry, a present one replaces it.
RECURSIVE ffillFrom(_, _, _, _, _)
ffillFrom(rows, col, lo, hi, carry) ==
    IF lo > hi THEN <<>>
    ELSE IF lo = hi
    THEN <<IF rows[lo][col] # None THEN rows[lo][col] ELSE carry>>
    ELSE LET mid == (lo + hi) \div 2
             left == ffillFrom(rows, col, lo, mid, carry)
         IN  left \o ffillFrom(rows, col, mid + 1, hi, left[Len(left)])

\* A fill that looks one row back only (fillna(shift())).
ffillOneBack(rows, col) ==
    [n \in 1..Len(rows) |->
        IF rows[n][col] # None THEN rows[n][col]
        ELSE IF n > 1 THEN rows[n - 1][col] ELSE None]

ffill(rows, col) == ffillFrom(rows, col, 1, Len(rows), None)

\* The frame after the three ffill assignments.
FilledRows(rows) ==
    LET names == ffill(rows, "event_name")
        users == ffill(rows, "user_pseudo_id")
        stamps == ffill(rows, "event_timestamp")
    IN  [i \in 1..Len(rows) |->
            [rows[i] EXCEPT !.event_name = names[i],
                            !.user_pseudo_id = users[i],
                            !.event_timestamp = stamps[i]]]

\* df[df['event_name'].notna()]
HasName(row) == row.event_name # None

\* A filter applied to the frame as read, before the fill.
event_df_unfilled(rows) == SelectSeq(rows, HasName)

event_df(rows) == SelectSeq(FilledRows(rows), HasName)

\* The dtype pd.read_csv gives a column: float64 when every present cell is a
\* number and one cell is missing or has a fraction (int64 when all are
\* integers, object when one is other text).
IsFloatColumn(rows, col) ==
    /\ \A i \in 1..Len(rows) :
          rows[i][col] = None \/ IsFloatLiteral(rows[i][col])
    /\ \E i \in 1..Len(rows) :
          rows[i][col] = None \/ ~AllDigits(rows[i][col])

\* The dtypes of the two columns whose values go through str() and int().
FloatColumns(rows) ==
    [event_timestamp |-> IsFloatColumn(rows, "event_timestamp"),
     quantity |-> IsFloatColumn(rows, "quantity")]

\* str() of a present cell: a whole number of a float64 column ends in '.0'.
FloatText(cell, isFloat) ==
    IF cell # None /\ isFloat /\ AllDigits(cell) THEN cell \o <<".", "0">>
    ELSE cell

StrOfTimestamp(ts, isFloat) ==
    IF ts = None THEN <<"n", "a", "n">> ELSE FloatText(ts, isFloat)

\* int(timestamp) if pd.notna(timestamp) else 0.  The column is a BIGINT: the
\* integer is kept as its decimal digits, without leading zeros.
IntOfTimestamp(ts) ==
    IF ts = None THEN <<"0">>
    ELSE LET dots == {i \in 1..Len(ts) : ts[i] = "."}
             whole == IF dots = {} THEN ts
                      ELSE SubSeq(ts, 1, (CHOOSE i \in dots : TRUE) - 1)
             nz == {i \in 1..Len(whole) : whole[i] # "0"}
         IN  IF nz = {} THEN <<"0">>
             ELSE SubSeq(whole, CHOOSE i \in nz : \A j \in nz : i <= j,
                         Len(whole))

\* int(timestamp) truncates a float and raises ValueError on a str that is
\* no integer.
TimestampConverts(ts, isFloat) == ts = None \/ isFloat \/ AllDigits(ts)

DaysInMonth(y, m) ==
    IF m = 2 THEN (IF (y % 4 = 0 /\ y % 100 # 0) \/ y % 400 = 0 THEN 29 ELSE 28)
    ELSE IF m \in {4, 6, 9, 11} THEN 30 ELSE 31

\* The date parse of the loop: an 8-digit YYYYMMDD cell gives str(date),
\* anything else the current date.
ParseDate(cell) ==
    IF cell = None \/ Len(cell) # 8 \/ ~AllDigits(cell) THEN Today
    ELSE LET y == DigitsValue(SubSeq(cell, 1, 4))
             m == DigitsValue(SubSeq(cell, 5, 6))
             d == DigitsValue(SubSeq(cell, 7, 8))
         IN  IF y >= 1 /\ m \in 1..12 /\ d >= 1 /\ d <= DaysInMonth(y, m)
             THEN SubSeq(cell, 1, 4) \o <<"-">> \o SubSeq(cell, 5, 6)
                    \o <<"-">> \o SubSeq(cell, 7, 8)
             ELSE Today

\* int(text) succeeds on a digit string; any other text raises ValueError.
IsIntLiteral(s) == AllDigits(s)

\* f"{user_id}_{str(timestamp)[:10]}"
SessionId(user_id, ts, isFloat) ==
    user_id \o <<"_">> \o Prefix(StrOfTimestamp(ts, isFloat), 10)

\* f"{date_key}|{source}|{medium}"
TrafficKey(date_key, source, medium) ==
    date_key \o <<"|">> \o source \o <<"|">> \o medium

\* f"{date_key}|{item_id}"
ProductKey(date_key, item_id) == date_key \o <<"|">> \o item_id

EmptyDict == [keys |-> <<>>, val |-> <<>>]

Has(dict, k) == \E i \in 1..Len(dict.keys) : dict.keys[i] = k

Get(dict, k) == dict.val[CHOOSE i \in 1..Len(dict.keys) : dict.keys[i] = k]

\* dict[k] = v
Put(dict, k, v) ==
    IF Has(dict, k)
    THEN [dict EXCEPT !.val[CHOOSE i \in 1..Len(dict.keys) : dict.keys[i] = k] = v]
    ELSE [keys |-> Append(dict.keys, k), val |-> Append(dict.val, v)]

NewDaily(date_key) ==
    [metric_date |-> date_key, sessions |-> {}, users |-> {}, page_views |-> 0,
     revenue |-> 0, transactions |-> {}, purchases |-> 0, view_items |-> 0,
     add_carts |-> 0, checkouts |-> 0]

NewTraffic(date_key, source, medium) ==
    [metric_date |-> date_key, source |-> source, medium |-> medium,
     sessions |-> {}, users |-> {}, page_views |-> 0, transactions |-> 0,
     revenue |-> 0]

NewProduct(date_key, item_id, item_name) ==
    [metric_date |-> date_key, item_id |-> item_id, item_name |-> item_name,
     views |-> 0, add_to_carts |-> 0, purchases |-> 0, revenue |-> 0,
     quantity_sold |-> 0]

Inc(b) == IF b THEN 1 ELSE 0

\* The fields the loop body extracts from one row of event_df.
RowFields(row, floats) ==
    LET user_id == clean_val(row.user_pseudo_id)
    IN  [event_name |-> OrElse(clean_val(row.event_name), unknown),
         timestamp |-> row.event_timestamp,
         timestamp_float |-> floats.event_timestamp,
         user_id |-> user_id,
         date_key |-> ParseDate(row.event_date),
         source |-> OrElse(clean_val(row.source), none_label),
         medium |-> OrElse(clean_val(row.medium), none_label),
         transaction_id |-> clean_val(row.transaction_id),
         purchase_revenue |-> clean_num(row.purchase_revenue),
         item_id |-> clean_val(row.item_id),
         item_name |-> clean_val(row.item_name),
         quantity_text |->
             OrElse(clean_val(FloatText(row.quantity, floats.quantity)), <<"1">>),
         item_revenue |-> clean_num(row.item_revenue),
         session_id |-> IF user_id = None THEN None
                        ELSE SessionId(user_id, row.event_timestamp,
                                       floats.event_timestamp)]

\* The raw event appended to all_events.
EventOf(x) ==
    [event_name |-> x.event_name,
     event_timestamp |-> IntOfTimestamp(x.timestamp),
     event_date |-> x.date_key,
     user_pseudo_id |-> x.user_id,
     session_id |-> x.session_id,
     traffic_source |-> x.source,
     traffic_medium |-> x.medium,
     item_id |-> x.item_id,
     item_name |-> x.item_name,
     item_revenue |-> x.item_revenue,
     item_quantity |-> DigitsValue(x.quantity_text),
     transaction_id |-> x.transaction_id,
     transaction_revenue |-> x.purchase_revenue]

\* A daily update that matches the event names without regard to case
\* (here: the one other spelling of the model's alphabet counts as page_view).
UpdateDailyAnyCase(dm, x) ==
    [dm EXCEPT
        !.users = @ \cup {x.user_id},
        !.page_views =
            @ + Inc(x.event_name \in
                      {page_view, <<"P", "a", "g", "e", "_", "V", "i", "e", "w">>}),
        !.sessions = @ \cup {x.session_id},
        !.purchases = @ + Inc(x.event_name = purchase),
        !.view_items = @ + Inc(x.event_name = view_item),
        !.add_carts = @ + Inc(x.event_name = add_to_cart),
        !.checkouts = @ + Inc(x.event_name = begin_checkout),
        !.transactions = IF OrElse(x.transaction_id, None) # None
                         THEN @ \cup {x.transaction_id} ELSE @,
        !.revenue = IF Truthy(x.purchase_revenue)
                    THEN @ + x.purchase_revenue[1] ELSE @]

UpdateDaily(dm, x) ==
    [dm EXCEPT
        !.users = @ \cup {x.user_id},
        !.page_views = @ + Inc(x.event_name = page_view),
        !.sessions = @ \cup {x.session_id},
        !.purchases = @ + Inc(x.event_name = purchase),
        !.view_items = @ + Inc(x.event_name = view_item),
        !.add_carts = @ + Inc(x.event_name = add_to_cart),
        !.checkouts = @ + Inc(x.event_name = begin_checkout),
        !.transactions = IF OrElse(x.transaction_id, None) # None
                         THEN @ \cup {x.transaction_id} ELSE @,
        !.revenue = IF Truthy(x.purchase_revenue)
                    THEN @ + x.purchase_revenue[1] ELSE @]

\* A traffic update that adds the item revenue instead of the purchase
\* revenue.
UpdateTrafficItemRevenue(tm, x) ==
    [tm EXCEPT
        !.users = @ \cup {x.user_id},
        !.page_views = @ + Inc(x.event_name = page_view),
        !.sessions = @ \cup {x.session_id},
        !.transactions = @ + Inc(x.event_name = purchase),
        !.revenue = IF Truthy(x.item_revenue)
                    THEN @ + x.item_revenue[1] ELSE @]

UpdateTraffic(tm, x) ==
    [tm EXCEPT
        !.users = @ \cup {x.user_id},
        !.page_views = @ + Inc(x.event_name = page_view),
        !.sessions = @ \cup {x.session_id},
        !.transactions = @ + Inc(x.event_name = purchase),
        !.revenue = IF Truthy(x.purchase_revenue)
                    THEN @ + x.purchase_revenue[1] ELSE @]

UpdateProduct(pm, x) ==
    [pm EXCEPT
        !.views = @ + Inc(x.event_name = view_item),
        !.add_to_carts = @ + Inc(x.event_name = add_to_cart),
        !.purchases = @ + Inc(x.event_name = purchase),
        !.revenue = IF x.event_name = purchase /\ Truthy(x.item_revenue)
                    THEN @ + x.item_revenue[1] ELSE @,
        !.quantity_sold = IF x.event_name = purchase
                          THEN @ + DigitsValue(x.quantity_text) ELSE @]

\* The state of the aggregation loop.
EmptyAcc ==
    [all_events |-> <<>>, daily_metrics |-> EmptyDict,
     traffic_metrics |-> EmptyDict, product_metrics |-> EmptyDict,
     raised |-> FALSE]

\* A loop that starts every event on a fresh accumulator (the
\* `if key not in dict` guard left out).
LookupFresh(dict, k, fresh) == fresh

\* dict[k] if k is in dict, else the fresh accumulator.
Lookup(dict, k, fresh) == IF Has(dict, k) THEN Get(dict, k) ELSE fresh

\* The body of the loop once the row's fields x and its two composite keys
\* are computed.
AggApply(acc, x, tkey, pkey) ==
    IF OrElse(x.user_id, None) = None THEN acc
    ELSE IF \/ ~IsIntLiteral(x.quantity_text)
            \/ ~TimestampConverts(x.timestamp, x.timestamp_float)
    THEN [acc EXCEPT !.raised = TRUE]
    ELSE [all_events |-> Append(acc.all_events, EventOf(x)),
          daily_metrics |->
              Put(acc.daily_metrics, x.date_key,
                  UpdateDaily(Lookup(acc.daily_metrics, x.date_key,
                                     NewDaily(x.date_key)), x)),
          traffic_metrics |->
              Put(acc.traffic_metrics, tkey,
                  UpdateTraffic(Lookup(acc.traffic_metrics, tkey,
                                       NewTraffic(x.date_key, x.source, x.medium)), x)),
          product_metrics |->
              IF OrElse(x.item_id, None) # None
              THEN Put(acc.product_metrics, pkey,
                       UpdateProduct(Lookup(acc.product_metrics, pkey,
                                            NewProduct(x.date_key, x.item_id,
                                                       x.item_name)), x))
              ELSE acc.product_metrics,
          raised |-> FALSE]

AggFields(acc, x) ==
    AggApply(acc, x, TrafficKey(x.date_key, x.source, x.medium),
             ProductKey(x.date_key, x.item_id))

\* One iteration of `for _, row in event_df.iterrows()`.
AggStep(acc, row, floats) ==
    IF acc.raised THEN acc ELSE AggFields(acc, RowFields(row, floats))

\* The loop over rows lo..hi, in row order.
RECURSIVE AggLoop(_, _, _, _, _)
AggLoop(acc, rows, lo, hi, floats) ==
    IF lo > hi THEN acc
    ELSE IF lo = hi THEN AggStep(acc, rows[lo], floats)
    ELSE LET mid == (lo + hi) \div 2
             left == AggLoop(acc, rows, lo, mid, floats)
         IN  IF left.raised THEN left
             ELSE AggLoop(left, rows, mid + 1, hi, floats)

\* a / b on amounts in hundredths, to the nearest hundredth.
Quotient(a, b) == (2 * a + b) \div (2 * b)

\* A finalization that reports the user count as the session count.
FinalDailyUsersAsSessions(dm) ==
    LET sessions == Cardinality(dm.users)
        transactions == Cardinality(dm.transactions)
    IN  [metric_date |-> dm.metric_date,
         sessions |-> sessions,
         total_users |-> Cardinality(dm.users),
         page_views |-> dm.page_views,
         total_revenue |-> dm.revenue,
         transactions |-> dm.purchases,
         items_sold |-> 0,
         average_order_value |->
             IF transactions > 0 THEN Quotient(dm.revenue, transactions) ELSE 0,
         conversion_rate |->
             IF sessions > 0 THEN Quotient(dm.purchases * 10000, sessions) ELSE 0,
         bounce_rate |-> 0,
         unique_purchases |-> transactions,
         view_item_events |-> dm.view_items,
         add_to_cart_events |-> dm.add_carts,
         begin_checkout_events |-> dm.checkouts]

\* A finalization that divides the revenue by the number of purchase events.
FinalDailyPerPurchase(dm) ==
    LET sessions == Cardinality(dm.sessions)
        transactions == Cardinality(dm.transactions)
    IN  [metric_date |-> dm.metric_date,
         sessions |-> sessions,
         total_users |-> Cardinality(dm.users),
         page_views |-> dm.page_views,
         total_revenue |-> dm.revenue,
         transactions |-> dm.purchases,
         items_sold |-> 0,
         average_order_value |->
             IF dm.purchases > 0 THEN Quotient(dm.revenue, dm.purchases) ELSE 0,
         conversion_rate |->
             IF sessions > 0 THEN Quotient(dm.purchases * 10000, sessions) ELSE 0,
         bounce_rate |-> 0,
         unique_purchases |-> transactions,
         view_item_events |-> dm.view_items,
         add_to_cart_events |-> dm.add_carts,
         begin_checkout_events |-> dm.checkouts]

FinalDaily(dm) ==
    LET sessions == Cardinality(dm.sessions)
        transactions == Cardinality(dm.transactions)
    IN  [metric_date |-> dm.metric_date,
         sessions |-> sessions,
         total_users |-> Cardinality(dm.users),
         page_views |-> dm.page_views,
         total_revenue |-> dm.revenue,
         transactions |-> dm.purchases,
         items_sold |-> 0,
         average_order_value |->
             IF transactions > 0 THEN Quotient(dm.revenue, transactions) ELSE 0,
         conversion_rate |->
             IF sessions > 0 THEN Quotient(dm.purchases * 10000, sessions) ELSE 0,
         bounce_rate |-> 0,
         unique_purchases |-> transactions,
         view_item_events |-> dm.view_items,
         add_to_cart_events |-> dm.add_carts,
         begin_checkout_events |-> dm.checkouts]

FinalTraffic(tm) ==
    LET sessions == Cardinality(tm.sessions)
    IN  [metric_date |-> tm.metric_date,
         source |-> tm.source,
         medium |-> tm.medium,
         campaign |-> None,
         sessions |-> sessions,
         users |-> Cardinality(tm.users),
         page_views |-> tm.page_views,
         transactions |-> tm.transactions,
         revenue |-> tm.revenue,
         conversion_rate |->
             IF sessions > 0 THEN Quotient(tm.transactions * 10000, sessions) ELSE 0]

FinalProduct(pm) ==
    [metric_date |-> pm.metric_date,
     item_id |-> pm.item_id,
     item_name |-> pm.item_name,
     views |-> pm.views,
     add_to_carts |-> pm.add_to_carts,
     checkouts |-> 0,
     purchases |-> pm.purchases,
     revenue |-> pm.revenue,
     quantity_sold |-> pm.quantity_sold,
     refund_amount |-> 0]

EmptyData ==
    [events |-> <<>>, daily_metrics |-> <<>>, traffic_metrics |-> <<>>,
     product_metrics |-> <<>>]

\* The first frame that is not None and has rows, or <<>> when there is none.
FirstUsable(dataframes) ==
    LET usable == {i \in 1..Len(dataframes) : Len(dataframes[i]) > 0}
    IN  IF usable = {} THEN <<>>
        ELSE <<dataframes[CHOOSE i \in usable : \A j \in usable : i <= j]>>

\* "Convert sets to counts" and the returned dict.
Finalize(acc) ==
    IF acc.raised THEN [raised |-> TRUE, data |-> EmptyData]
    ELSE [raised |-> FALSE,
          data |->
            [events |-> acc.all_events,
             daily_metrics |->
                 [n \in 1..Len(acc.daily_metrics.val) |->
                     FinalDaily(acc.daily_metrics.val[n])],
             traffic_metrics |->
                 [n \in 1..Len(acc.traffic_metrics.val) |->
                     FinalTraffic(acc.traffic_metrics.val[n])],
             product_metrics |->
                 [n \in 1..Len(acc.product_metrics.val) |->
                     FinalProduct(acc.product_metrics.val[n])]]]

\* The loop and the finalization over one frame.
TransformFrame(df, rows) ==
    Finalize(AggLoop(EmptyAcc, rows, 1, Len(rows), FloatColumns(df)))

TransformFirst(first) ==
    IF first = <<>> THEN [raised |-> FALSE, data |-> EmptyData]
    ELSE TransformFrame(first[1], event_df(first[1]))

\* transform_data(dataframes): [raised, data].
transform_data(dataframes) == TransformFirst(FirstUsable(dataframes))

\* ------------------------------------------------------------------------
\* The database (PostgreSQL, through one psycopg connection per load_data)
\* ------------------------------------------------------------------------

\* SQL NULL in a text column of etl_runs, and the status values.
NullText == "<NULL>"

\* The schema of init_database: every table empty.  raw_events holds one
\* entry per executed batch INSERT: the inserting run, the index of its first
\* event and the number of rows (the rows are data['events'][first:first+n],
\* copied column by column).
EmptyDatabase ==
    [etl_runs |-> {}, raw_events |-> {}, daily_metrics |-> {},
     traffic_source_metrics |-> {}, product_metrics |-> {},
     dashboard_summary |-> {}]

\* INSERT INTO etl_runs (status, rows_processed) VALUES ('running', 0)
InsertRun(t, id) ==
    [t EXCEPT !.etl_runs = @ \cup
        {[run_id |-> id, status |-> "running", rows_processed |-> 0,
          error_message |-> NullText, completed_at |-> 0]}]

\* executemany INSERT INTO raw_events of events[first : first + n]
InsertBatch(t, id, first, n) ==
    [t EXCEPT !.raw_events = @ \cup {[run_id |-> id, first |-> first, rows |-> n]}]

\* A daily upsert whose conflict branch adds to the stored counters
\* (page_views = dm.page_views + EXCLUDED.page_views, ...).
UpsertDailyAdding(t, dm, now) ==
    LET hit == {r \in t.daily_metrics : r.metric_date = dm.metric_date}
        new == [metric_date |-> dm.metric_date,
                sessions |-> dm.sessions,
                total_users |-> dm.total_users,
                page_views |-> dm.page_views,
                total_revenue |-> dm.total_revenue,
                transactions |-> dm.transactions,
                items_sold |-> dm.items_sold,
                average_order_value |-> dm.average_order_value,
                conversion_rate |-> dm.conversion_rate,
                bounce_rate |-> dm.bounce_rate,
                unique_purchases |-> dm.unique_purchases,
                view_item_events |-> dm.view_item_events,
                add_to_cart_events |-> dm.add_to_cart_events,
                begin_checkout_events |-> dm.begin_checkout_events,
                updated_at |-> now]
        upd(r) == [r EXCEPT !.sessions = @ + dm.sessions,
                            !.total_users = @ + dm.total_users,
                            !.page_views = @ + dm.page_views,
                            !.total_revenue = @ + dm.total_revenue,
                            !.transactions = @ + dm.transactions,
                            !.average_order_value = dm.average_order_value,
                            !.conversion_rate = dm.conversion_rate,
                            !.updated_at = now]
    IN  [t EXCEPT !.daily_metrics =
            IF hit = {} THEN @ \cup {new}
            ELSE (@ \ hit) \cup {upd(r) : r \in hit}]

\* INSERT INTO daily_metrics ... ON CONFLICT (metric_date) DO UPDATE SET ...
UpsertDaily(t, dm, now) ==
    LET hit == {r \in t.daily_metrics : r.metric_date = dm.metric_date}
        new == [metric_date |-> dm.metric_date,
                sessions |-> dm.sessions,
                total_users |-> dm.total_users,
                page_views |-> dm.page_views,
                total_revenue |-> dm.total_revenue,
                transactions |-> dm.transactions,
                items_sold |-> dm.items_sold,
                average_order_value |-> dm.average_order_value,
                conversion_rate |-> dm.conversion_rate,
                bounce_rate |-> dm.bounce_rate,
                unique_purchases |-> dm.unique_purchases,
                view_item_events |-> dm.view_item_events,
                add_to_cart_events |-> dm.add_to_cart_events,
                begin_checkout_events |-> dm.begin_checkout_events,
                updated_at |-> now]
        upd(r) == [r EXCEPT !.sessions = dm.sessions,
                            !.total_users = dm.total_users,
                            !.page_views = dm.page_views,
                            !.total_revenue = dm.total_revenue,
                            !.transactions = dm.transactions,
                            !.average_order_value = dm.average_order_value,
                            !.conversion_rate = dm.conversion_rate,
                            !.updated_at = now]
    IN  [t EXCEPT !.daily_metrics =
            IF hit = {} THEN @ \cup {new}
            ELSE (@ \ hit) \cup {upd(r) : r \in hit}]

\* INSERT INTO traffic_source_metrics ... ON CONFLICT (metric_date, source,
\* medium) DO UPDATE SET ...
UpsertTraffic(t, tm) ==
    LET hit == {r \in t.traffic_source_metrics :
                   /\ r.metric_date = tm.metric_date
                   /\ r.source = tm.source
                   /\ r.medium = tm.medium}
        new == [metric_date |-> tm.metric_date, source |-> tm.source,
                medium |-> tm.medium, campaign |-> tm.campaign,
                sessions |-> tm.sessions, users |-> tm.users,
                page_views |-> tm.page_views, transactions |-> tm.transactions,
                revenue |-> tm.revenue, conversion_rate |-> tm.conversion_rate]
        upd(r) == [r EXCEPT !.sessions = tm.sessions,
                            !.users = tm.users,
                            !.page_views = tm.page_views,
                            !.transactions = tm.transactions,
                            !.revenue = tm.revenue,
                            !.conversion_rate = tm.conversion_rate]
    IN  [t EXCEPT !.traffic_source_metrics =
            IF hit = {} THEN @ \cup {new}
            ELSE (@ \ hit) \cup {upd(r) : r \in hit}]

\* INSERT INTO product_metrics ... ON CONFLICT (metric_date, item_id)
\* DO UPDATE SET ...
UpsertProduct(t, pm) ==
    LET hit == {r \in t.product_metrics :
                   r.metric_date = pm.metric_date /\ r.item_id = pm.item_id}
        new == [metric_date |-> pm.metric_date, item_id |-> pm.item_id,
                item_name |-> pm.item_name, views |-> pm.views,
                add_to_carts |-> pm.add_to_carts, checkouts |-> pm.checkouts,
                purchases |-> pm.purchases, revenue |-> pm.revenue,
                quantity_sold |-> pm.quantity_sold,
                refund_amount |-> pm.refund_amount]
        upd(r) == [r EXCEPT !.views = pm.views,
                            !.add_to_carts = pm.add_to_carts,
                            !.purchases = pm.purchases,
                            !.revenue = pm.revenue,
                            !.quantity_sold = pm.quantity_sold]
    IN  [t EXCEPT !.product_metrics =
            IF hit = {} THEN @ \cup {new}
            ELSE (@ \ hit) \cup {upd(r) : r \in hit}]

\* REFRESH MATERIALIZED VIEW dashboard_summary
RefreshView(t) ==
    [t EXCEPT !.dashboard_summary =
        {[date |-> r.metric_date, sessions |-> r.sessions,
          total_users |-> r.total_users, page_views |-> r.page_views,
          total_revenue |-> r.total_revenue, transactions |-> r.transactions,
          items_sold |-> r.items_sold,
          average_order_value |-> r.average_order_value,
          conversion_rate |-> r.conversion_rate] : r \in t.daily_metrics}]

\* A completion UPDATE that sets the status and leaves rows_processed alone.
MarkCompletedStatusOnly(t, id, rows, now) ==
    [t EXCEPT !.etl_runs =
        {IF r.run_id = id
         THEN [r EXCEPT !.completed_at = now, !.status = "completed"]
         ELSE r : r \in @}]

\* UPDATE etl_runs SET completed_at = NOW(), status = 'completed',
\* rows_processed = %s WHERE run_id = %s
MarkCompleted(t, id, rows, now) ==
    [t EXCEPT !.etl_runs =
        {IF r.run_id = id
         THEN [r EXCEPT !.completed_at = now, !.status = "completed",
                        !.rows_processed = rows]
         ELSE r : r \in @}]

\* UPDATE etl_runs SET completed_at = NOW(), status = 'failed',
\* error_message = %s WHERE run_id = %s
MarkFailed(t, id, message, now) ==
    [t EXCEPT !.etl_runs =
        {IF r.run_id = id
         THEN [r EXCEPT !.completed_at = now, !.status = "failed",
                        !.error_message = message]
         ELSE r : r \in @}]

\* ------------------------------------------------------------------------
\* Inputs: what download_from_kaggle can hand to the pipeline
\* ------------------------------------------------------------------------

\* The number of run_etl invocations a behaviour makes.
MaxRuns == 2

batch_size == 500

BlankRow == [c \in Columns |-> None]

Jan15 == <<"2", "0", "2", "1", "0", "1", "1", "5">>

EventRow(name, user, stamp) ==
    [BlankRow EXCEPT !.event_name = name, !.user_pseudo_id = user,
                     !.event_timestamp = stamp, !.event_date = Jan15,
                     !.source = <<"g">>, !.medium = <<"c", "p", "c">>]

Stamp1 == <<"1", "6", "0", "9", "4", "5", "9", "2", "0", "0", "1", "1">>
Stamp2 == <<"1", "6", "0", "9", "4", "5", "9", "2", "0", "1", "2", "2">>

\* A page view, a parameter row that repeats it, and a purchase of item i1
\* (the quantity column is empty: a quantity next to missing cells is read as
\* a float, see FrameBad).
FrameA ==
    << EventRow(page_view, <<"u", "1">>, Stamp1),
       [BlankRow EXCEPT !.event_date = Jan15, !.source = <<"g">>,
                        !.medium = <<"c", "p", "c">>],
       [EventRow(purchase, <<"u", "1">>, Stamp2) EXCEPT
            !.transaction_id = <<"t", "1">>,
            !.purchase_revenue = <<"1", "0", ".", "0">>,
            !.item_id = <<"i", "1">>, !.item_name = <<"A">>,
            !.item_revenue = <<"1", "0", ".", "0">>] >>

\* The same date, source and item as FrameA, seen by another user.
FrameB ==
    << [EventRow(view_item, <<"u", "2">>, Stamp1) EXCEPT
            !.item_id = <<"i", "1">>, !.item_name = <<"B">>],
       EventRow(page_view, <<"u", "2">>, Stamp1),
       EventRow(page_view, <<"u", "3">>, Stamp2) >>

\* More events than one batch holds.
FrameBig ==
    [n \in 1..(batch_size + 1) |->
        [BlankRow EXCEPT !.event_name = <<"e">>, !.user_pseudo_id = <<"u">>]]

\* A quantity pandas read as a float: int('2.0') raises ValueError.
FrameBad ==
    << [EventRow(purchase, <<"u", "1">>, Stamp1) EXCEPT
            !.item_id = <<"i", "1">>, !.quantity = <<"2", ".", "0">>] >>

EmptyFrame == <<>>

\* The dataframes dict, as the sequence of its values in insertion order.
KaggleFiles ==
    { <<>>, <<EmptyFrame>>, <<FrameA>>, <<EmptyFrame, FrameB>>, <<FrameBig>>,
      <<FrameBad>> }

\* str(e) of the exceptions the model raises.
DownloadError == "download failed"
ValueError == "invalid literal for int()"
ConnectError == "connection failed"
WriteErrors == {"write failed"}

\* ------------------------------------------------------------------------
\* run_etl and load_data, one run after another
\* ------------------------------------------------------------------------

VARIABLES
    db,           \* the committed contents of the database
    tx,           \* what the open connection sees: db plus its uncommitted writes
    pc,           \* where run_etl / load_data stands
    nrun,         \* run_etl invocations started so far
    dataframes,   \* run_etl: the result of download_from_kaggle
    data,         \* run_etl: the result of transform_data
    run_id,       \* load_data: the run_id returned by the INSERT into etl_runs
    i,            \* load_data: the batch offset, then the index into a list
    exc,          \* the exception being propagated (str(e)), or NullText
    result,       \* what run_etl returned
    loadExit,     \* how load_data left: "none", "returned" or "raised"
    failedAt,     \* where the failing write stood: [stage, i]
    loadStart,    \* db when this load_data was entered
    prevMetrics,  \* the finalized records of the load_data call before this one
    lastMetrics   \* the finalized records of the last load_data call that returned

\* ETLScheduler and its callers (threads of the scheduler process, and the
\* dashboard process with its "Run ETL Now" button).
VARIABLES
    running,      \* ETLScheduler.running
    last_run,     \* ETLScheduler.last_run: "None" or "datetime"
    last_result,  \* ETLScheduler.last_result: "None", or the dict's success
    at,           \* at[c]: where caller c stands
    inflight      \* the callers whose run_etl call has not returned

etlVars ==
    <<db, tx, pc, nrun, dataframes, data, run_id, i, exc, result, loadExit,
      failedAt, loadStart, prevMetrics, lastMetrics>>

schedVars == <<running, last_run, last_result, at, inflight>>

\* One call of transform_data, statement by statement.
VARIABLES
    df,           \* transform_data: the frame picked from dataframes
    filled,       \* df after the three ffill assignments
    kept,         \* event_df
    row_no,       \* rows of event_df the loop has been through
    agg,          \* all_events and the three accumulator dicts
    agg_before,   \* agg as the last iteration found it
    pass_out,     \* the dict transform_data returned
    pass_pc       \* where transform_data stands

passVars == <<df, filled, kept, row_no, agg, agg_before, pass_out, pass_pc>>

vars == <<etlVars, schedVars, passVars>>

\* The callers of the scheduling layer.
NCallers == 2

Callers == 1..NCallers

NoResult ==
    [returned |-> FALSE, keys |-> {}, success |-> FALSE, events |-> 0,
     error |-> NullText]

NoFailure == [stage |-> "none", i |-> 0]

NoMetrics ==
    [valid |-> FALSE, daily_metrics |-> <<>>, traffic_metrics |-> <<>>,
     product_metrics |-> <<>>]

MetricsOf(d) ==
    [valid |-> TRUE, daily_metrics |-> d.daily_metrics,
     traffic_metrics |-> d.traffic_metrics,
     product_metrics |-> d.product_metrics]

\* NOW(): the model's clock ticks once per run.
Now == nrun

\* ETLScheduler.__init__, with every caller outside its calls.
SchedInit ==
    /\ running = FALSE
    /\ last_run = "None"
    /\ last_result = "None"
    /\ at = [c \in Callers |-> "idle"]
    /\ inflight = {}

\* No transform_data call is being followed.
PassOff ==
    /\ df = <<>>
    /\ filled = <<>>
    /\ kept = <<>>
    /\ row_no = 0
    /\ agg = EmptyAcc
    /\ agg_before = EmptyAcc
    /\ pass_out = EmptyData
    /\ pass_pc = "off"

\* The schema is initialized and no run_etl call has been made.
EtlInit ==
    /\ db = EmptyDatabase
    /\ tx = EmptyDatabase
    /\ pc = "idle"
    /\ nrun = 0
    /\ dataframes = <<>>
    /\ data = EmptyData
    /\ run_id = 0
    /\ i = 0
    /\ exc = NullText
    /\ result = NoResult
    /\ loadExit = "none"
    /\ failedAt = NoFailure
    /\ loadStart = EmptyDatabase
    /\ prevMetrics = NoMetrics
    /\ lastMetrics = NoMetrics

Init == SchedInit /\ EtlInit /\ PassOff

\* A caller invokes run_etl.
StartRun ==
    /\ pc = "idle"
    /\ nrun < MaxRuns
    /\ nrun' = nrun + 1
    /\ pc' = "extract"
    /\ UNCHANGED <<schedVars, passVars, db, tx, dataframes, data, run_id, i, exc, result, loadExit,
                   failedAt, loadStart, prevMetrics, lastMetrics>>

\* dataframes = download_from_kaggle(force)
Extract(files) ==
    /\ pc = "extract"
    /\ dataframes' = files
    /\ pc' = "transform"
    /\ UNCHANGED <<schedVars, passVars, db, tx, nrun, data, run_id, i, exc, result, loadExit,
                   failedAt, loadStart, prevMetrics, lastMetrics>>

\* download_from_kaggle raises (RAW_DIR.mkdir, or reading the cached file).
ExtractRaises ==
    /\ pc = "extract"
    /\ exc' = DownloadError
    /\ pc' = "catch"
    /\ UNCHANGED <<schedVars, passVars, db, tx, nrun, dataframes, data, run_id, i, result, loadExit,
                   failedAt, loadStart, prevMetrics, lastMetrics>>

\* What run_etl does with the outcome t of transform_data: a raise goes to the
\* except clause, a result on to load_data.
AfterTransform(t) ==
    /\ data' = t.data
    /\ exc' = IF t.raised THEN ValueError ELSE exc
    /\ pc' = IF t.raised THEN "catch" ELSE "load"

\* data = transform_data(dataframes)
Transform ==
    /\ pc = "transform"
    /\ AfterTransform(transform_data(dataframes))
    /\ UNCHANGED <<schedVars, passVars, db, tx, nrun, dataframes, run_id, i, result, loadExit,
                   failedAt, loadStart, prevMetrics, lastMetrics>>

\* load_data up to the try: connect, INSERT the run record (uncommitted),
\* fetch its run_id; then `if events:`.
LoadBegin ==
    /\ pc = "load"
    /\ tx' = InsertRun(db, nrun)
    /\ run_id' = nrun
    /\ i' = 0
    /\ pc' = IF Len(data.events) > 0 THEN "raw" ELSE "daily"
    /\ loadStart' = db
    /\ prevMetrics' = lastMetrics
    /\ UNCHANGED <<schedVars, passVars, db, nrun, dataframes, data, exc, result, loadExit, failedAt,
                   lastMetrics>>

\* get_connection() or the INSERT into etl_runs raises: there is no handler
\* in load_data yet, the exception leaves it at once.
LoadBeginFails ==
    /\ pc = "load"
    /\ exc' = ConnectError
    /\ pc' = "catch"
    /\ loadExit' = "raised"
    /\ failedAt' = [stage |-> "load", i |-> 0]
    /\ loadStart' = db
    /\ prevMetrics' = lastMetrics
    /\ lastMetrics' = NoMetrics
    /\ UNCHANGED <<schedVars, passVars, db, tx, nrun, dataframes, data, run_id, i, result>>

\* A batch loop that commits after every batch.
RawBatchCommitted ==
    /\ pc = "raw"
    /\ i < Len(data.events)
    /\ LET n == IF i + batch_size <= Len(data.events)
                THEN batch_size ELSE Len(data.events) - i
       IN  /\ tx' = InsertBatch(tx, run_id, i, n)
           /\ db' = InsertBatch(tx, run_id, i, n)
    /\ i' = i + batch_size
    /\ UNCHANGED <<schedVars, passVars, pc, nrun, dataframes, data, run_id, exc, result,
                   loadExit, failedAt, loadStart, prevMetrics, lastMetrics>>

\* One pass of `for i in range(0, len(events), batch_size)`.
RawBatch ==
    /\ pc = "raw"
    /\ i < Len(data.events)
    /\ LET n == IF i + batch_size <= Len(data.events)
                THEN batch_size ELSE Len(data.events) - i
       IN  tx' = InsertBatch(tx, run_id, i, n)
    /\ i' = i + batch_size
    /\ UNCHANGED <<schedVars, passVars, db, pc, nrun, dataframes, data, run_id, exc, result,
                   loadExit, failedAt, loadStart, prevMetrics, lastMetrics>>

\* conn.commit() after the batch loop.
RawCommit ==
    /\ pc = "raw"
    /\ i >= Len(data.events)
    /\ db' = tx
    /\ i' = 0
    /\ pc' = "daily"
    /\ UNCHANGED <<schedVars, passVars, tx, nrun, dataframes, data, run_id, exc, result, loadExit,
                   failedAt, loadStart, prevMetrics, lastMetrics>>

\* One pass of `for dm in data['daily_metrics']`.
DailyUpsert ==
    /\ pc = "daily"
    /\ i < Len(data.daily_metrics)
    /\ tx' = UpsertDaily(tx, data.daily_metrics[i + 1], Now)
    /\ i' = i + 1
    /\ UNCHANGED <<schedVars, passVars, db, pc, nrun, dataframes, data, run_id, exc, result,
                   loadExit, failedAt, loadStart, prevMetrics, lastMetrics>>

DailyCommit ==
    /\ pc = "daily"
    /\ i >= Len(data.daily_metrics)
    /\ db' = tx
    /\ i' = 0
    /\ pc' = "traffic"
    /\ UNCHANGED <<schedVars, passVars, tx, nrun, dataframes, data, run_id, exc, result, loadExit,
                   failedAt, loadStart, prevMetrics, lastMetrics>>

\* One pass of `for tm in data['traffic_metrics']`.
TrafficUpsert ==
    /\ pc = "traffic"
    /\ i < Len(data.traffic_metrics)
    /\ tx' = UpsertTraffic(tx, data.traffic_metrics[i + 1])
    /\ i' = i + 1
    /\ UNCHANGED <<schedVars, passVars, db, pc, nrun, dataframes, data, run_id, exc, result,
                   loadExit, failedAt, loadStart, prevMetrics, lastMetrics>>

TrafficCommit ==
    /\ pc = "traffic"
    /\ i >= Len(data.traffic_metrics)
    /\ db' = tx
    /\ i' = 0
    /\ pc' = "product"
    /\ UNCHANGED <<schedVars, passVars, tx, nrun, dataframes, data, run_id, exc, result, loadExit,
                   failedAt, loadStart, prevMetrics, lastMetrics>>

\* One pass of `for pm in data['product_metrics']`.
ProductUpsert ==
    /\ pc = "product"
    /\ i < Len(data.product_metrics)
    /\ tx' = UpsertProduct(tx, data.product_metrics[i + 1])
    /\ i' = i + 1
    /\ UNCHANGED <<schedVars, passVars, db, pc, nrun, dataframes, data, run_id, exc, result,
                   loadExit, failedAt, loadStart, prevMetrics, lastMetrics>>

ProductCommit ==
    /\ pc = "product"
    /\ i >= Len(data.product_metrics)
    /\ db' = tx
    /\ i' = 0
    /\ pc' = "refresh"
    /\ UNCHANGED <<schedVars, passVars, tx, nrun, dataframes, data, run_id, exc, result, loadExit,
                   failedAt, loadStart, prevMetrics, lastMetrics>>

\* REFRESH MATERIALIZED VIEW; conn.commit()
Refresh ==
    /\ pc = "refresh"
    /\ tx' = RefreshView(tx)
    /\ db' = RefreshView(tx)
    /\ pc' = "complete"
    /\ UNCHANGED <<schedVars, passVars, nrun, dataframes, data, run_id, i, exc, result, loadExit,
                   failedAt, loadStart, prevMetrics, lastMetrics>>

\* The UPDATE to 'completed', commit, close, return True.
Complete ==
    /\ pc = "complete"
    /\ tx' = MarkCompleted(tx, run_id, Len(data.events), Now)
    /\ db' = MarkCompleted(tx, run_id, Len(data.events), Now)
    /\ pc' = "loaded"
    /\ loadExit' = "returned"
    /\ lastMetrics' = MetricsOf(data)
    /\ UNCHANGED <<schedVars, passVars, nrun, dataframes, data, run_id, i, exc, result, failedAt,
                   loadStart, prevMetrics>>

TryStages == {"raw", "daily", "traffic", "product", "refresh", "complete"}

\* The next statement of the try block (an execute or a commit) raises.
WriteFails(e) ==
    /\ pc \in TryStages
    /\ exc' = e
    /\ failedAt' = [stage |-> pc, i |-> i]
    /\ pc' = "except"
    /\ UNCHANGED <<schedVars, passVars, db, tx, nrun, dataframes, data, run_id, i, result, loadExit,
                   loadStart, prevMetrics, lastMetrics>>

\* except Exception as e: rollback, UPDATE to 'failed', commit, close, raise.
HandleFailure ==
    /\ pc = "except"
    /\ tx' = MarkFailed(db, run_id, exc, Now)
    /\ db' = MarkFailed(db, run_id, exc, Now)
    /\ pc' = "catch"
    /\ loadExit' = "raised"
    /\ lastMetrics' = NoMetrics
    /\ UNCHANGED <<schedVars, passVars, nrun, dataframes, data, run_id, i, exc, result, failedAt,
                   loadStart, prevMetrics>>

\* run_etl: return {'success': True, 'events': len(data['events'])}
ReturnSuccess ==
    /\ pc = "loaded"
    /\ result' = [returned |-> TRUE, keys |-> {"success", "events"},
                  success |-> TRUE, events |-> Len(data.events),
                  error |-> NullText]
    /\ pc' = "done"
    /\ UNCHANGED <<schedVars, passVars, db, tx, nrun, dataframes, data, run_id, i, exc, loadExit,
                   failedAt, loadStart, prevMetrics, lastMetrics>>

\* A run_etl whose handler catches ValueError only: the exceptions of extract
\* and load leave run_etl.
CatchFailureValueErrorOnly ==
    /\ pc = "catch"
    /\ result' = IF exc = ValueError
                 THEN [returned |-> TRUE, keys |-> {"success", "error"},
                       success |-> FALSE, events |-> 0, error |-> exc]
                 ELSE result
    /\ pc' = IF exc = ValueError THEN "done" ELSE "raised"
    /\ UNCHANGED <<schedVars, passVars, db, tx, nrun, dataframes, data, run_id, i, exc, loadExit,
                   failedAt, loadStart, prevMetrics, lastMetrics>>

\* run_etl: except Exception as e: return {'success': False, 'error': str(e)}
CatchFailure ==
    /\ pc = "catch"
    /\ result' = [returned |-> TRUE, keys |-> {"success", "error"},
                  success |-> FALSE, events |-> 0, error |-> exc]
    /\ pc' = "done"
    /\ UNCHANGED <<schedVars, passVars, db, tx, nrun, dataframes, data, run_id, i, exc, loadExit,
                   failedAt, loadStart, prevMetrics, lastMetrics>>

\* The caller has the result and the locals of run_etl and load_data are gone;
\* run_etl can be invoked again.
Idle ==
    /\ pc = "done"
    /\ pc' = "idle"
    /\ tx' = db
    /\ dataframes' = <<>>
    /\ data' = EmptyData
    /\ run_id' = 0
    /\ i' = 0
    /\ exc' = NullText
    /\ result' = NoResult
    /\ loadExit' = "none"
    /\ failedAt' = NoFailure
    /\ loadStart' = EmptyDatabase
    /\ prevMetrics' = NoMetrics
    /\ UNCHANGED <<schedVars, passVars, db, nrun, lastMetrics>>

Next ==
    \/ StartRun
    \/ \E files \in KaggleFiles : Extract(files)
    \/ ExtractRaises
    \/ Transform
    \/ LoadBegin
    \/ LoadBeginFails
    \/ RawBatch
    \/ RawCommit
    \/ DailyUpsert
    \/ DailyCommit
    \/ TrafficUpsert
    \/ TrafficCommit
    \/ ProductUpsert
    \/ ProductCommit
    \/ Refresh
    \/ Complete
    \/ \E e \in WriteErrors : WriteFails(e)
    \/ HandleFailure
    \/ ReturnSuccess
    \/ CatchFailure
    \/ Idle

Spec == Init /\ [][Next]_vars

\* ------------------------------------------------------------------------
\* ETLScheduler: job, run_manual, and the dashboard's button
\* ------------------------------------------------------------------------

\* A caller enters ETLScheduler.job (the schedule library's timer).
JobCall(c) ==
    /\ at[c] = "idle"
    /\ at' = [at EXCEPT ![c] = "job_check"]
    /\ UNCHANGED <<etlVars, passVars, running, last_run, last_result, inflight>>

\* job: `if self.running:` is true: log and return.
JobSkip(c) ==
    /\ at[c] = "job_check"
    /\ running
    /\ at' = [at EXCEPT ![c] = "idle"]
    /\ UNCHANGED <<etlVars, passVars, running, last_run, last_result, inflight>>

\* job: `if self.running:` is false.
JobPass(c) ==
    /\ at[c] = "job_check"
    /\ ~running
    /\ at' = [at EXCEPT ![c] = "job_set"]
    /\ UNCHANGED <<etlVars, passVars, running, last_run, last_result, inflight>>

\* job: self.running = True, then run_etl(force=False) is entered.
JobRun(c) ==
    /\ at[c] = "job_set"
    /\ running' = TRUE
    /\ inflight' = inflight \cup {c}
    /\ at' = [at EXCEPT ![c] = "job_run"]
    /\ UNCHANGED <<etlVars, passVars, last_run, last_result>>

\* job: run_etl returns its dict; self.last_result = ...
JobResult(c, success) ==
    /\ at[c] = "job_run"
    /\ inflight' = inflight \ {c}
    /\ last_result' = success
    /\ at' = [at EXCEPT ![c] = "job_finally"]
    /\ UNCHANGED <<etlVars, passVars, running, last_run>>

\* job: run_etl raises an Exception (its log calls before the try and in its
\* handler are unguarded); except Exception: self.last_result =
\* {'success': False, 'error': str(e)}, written "Raised".
JobExcept(c) ==
    /\ at[c] = "job_run"
    /\ inflight' = inflight \ {c}
    /\ last_result' = "Raised"
    /\ at' = [at EXCEPT ![c] = "job_finally"]
    /\ UNCHANGED <<etlVars, passVars, running, last_run>>

\* A finally clause that stamps last_run and leaves the flag as it is.
JobFinallyKeepsFlag(c) ==
    /\ at[c] = "job_finally"
    /\ last_run' = "datetime"
    /\ at' = [at EXCEPT ![c] = "idle"]
    /\ UNCHANGED <<etlVars, passVars, running, last_result, inflight>>

\* job: finally: self.running = False; self.last_run = datetime.now()
JobFinally(c) ==
    /\ at[c] = "job_finally"
    /\ running' = FALSE
    /\ last_run' = "datetime"
    /\ at' = [at EXCEPT ![c] = "idle"]
    /\ UNCHANGED <<etlVars, passVars, last_result, inflight>>

\* A caller enters ETLScheduler.run_manual.
ManualCall(c) ==
    /\ at[c] = "idle"
    /\ at' = [at EXCEPT ![c] = "manual_check"]
    /\ UNCHANGED <<etlVars, passVars, running, last_run, last_result, inflight>>

\* run_manual: `if self.running:` is true: raise Exception('ETL already running').
ManualReject(c) ==
    /\ at[c] = "manual_check"
    /\ running
    /\ at' = [at EXCEPT ![c] = "idle"]
    /\ UNCHANGED <<etlVars, passVars, running, last_run, last_result, inflight>>

\* run_manual: `if self.running:` is false: return run_etl(force=False).
ManualRun(c) ==
    /\ at[c] = "manual_check"
    /\ ~running
    /\ inflight' = inflight \cup {c}
    /\ at' = [at EXCEPT ![c] = "manual_run"]
    /\ UNCHANGED <<etlVars, passVars, running, last_run, last_result>>

\* run_manual: run_etl returns, and run_manual with it.
ManualReturn(c) ==
    /\ at[c] = "manual_run"
    /\ inflight' = inflight \ {c}
    /\ at' = [at EXCEPT ![c] = "idle"]
    /\ UNCHANGED <<etlVars, passVars, running, last_run, last_result>>

\* dashboard.py: the "Run ETL Now" button calls run_etl(force=False).
ButtonRun(c) ==
    /\ at[c] = "idle"
    /\ inflight' = inflight \cup {c}
    /\ at' = [at EXCEPT ![c] = "button_run"]
    /\ UNCHANGED <<etlVars, passVars, running, last_run, last_result>>

\* dashboard.py: run_etl returns to the button's handler.
ButtonReturn(c) ==
    /\ at[c] = "button_run"
    /\ inflight' = inflight \ {c}
    /\ at' = [at EXCEPT ![c] = "idle"]
    /\ UNCHANGED <<etlVars, passVars, running, last_run, last_result>>

SchedNext ==
    \E c \in Callers :
        \/ JobCall(c)
        \/ JobSkip(c)
        \/ JobPass(c)
        \/ JobRun(c)
        \/ \E success \in {"True", "False"} : JobResult(c, success)
        \/ JobExcept(c)
        \/ JobFinally(c)
        \/ ManualCall(c)
        \/ ManualReject(c)
        \/ ManualRun(c)
        \/ ManualReturn(c)
        \/ ButtonRun(c)
        \/ ButtonReturn(c)

SpecSched == Init /\ [][SchedNext]_vars

\* ------------------------------------------------------------------------
\* transform_data, one statement at a time, over small frames
\* ------------------------------------------------------------------------

\* The longest frame handed to transform_data.
MaxRows == 3

Jan16 == <<"2", "0", "2", "1", "0", "1", "1", "6">>

\* A page view of user u1; the export leaves its quantity cell empty.
PageViewRow == EventRow(page_view, <<"u", "1">>, Stamp1)

\* A page view of user u1 on the next day.
NextDayViewRow ==
    [EventRow(page_view, <<"u", "1">>, Stamp1) EXCEPT !.event_date = Jan16]

\* A parameter row: name, user and timestamp are left to the row above.
ParamRow ==
    [BlankRow EXCEPT !.event_date = Jan15, !.source = <<"g">>,
                     !.medium = <<"c", "p", "c">>]

\* Two purchases of user u1: transactions t1 and t2, revenues 10 and 20; the
\* second carries no item revenue.
Purchase1 ==
    [EventRow(purchase, <<"u", "1">>, Stamp1) EXCEPT
        !.transaction_id = <<"t", "1">>,
        !.purchase_revenue = <<"1", "0", ".", "0">>,
        !.item_id = <<"i", "1">>, !.item_name = <<"A">>,
        !.quantity = <<"2">>, !.item_revenue = <<"1", "0", ".", "0">>]

Purchase2 ==
    [EventRow(purchase, <<"u", "1">>, Stamp2) EXCEPT
        !.transaction_id = <<"t", "2">>,
        !.purchase_revenue = <<"2", "0", ".", "0">>,
        !.item_id = <<"i", "1">>, !.item_name = <<"A">>,
        !.quantity = <<"1">>]

\* Two rows of user u2 whose source and medium hold the separator.
SepViewRow ==
    [EventRow(page_view, <<"u", "2">>, Stamp2) EXCEPT
        !.source = <<"a", "|", "b">>, !.medium = <<"c">>,
        !.quantity = <<"1">>]

SepItemRow ==
    [EventRow(view_item, <<"u", "2">>, Stamp2) EXCEPT
        !.source = <<"a">>, !.medium = <<"b", "|", "c">>,
        !.item_id = <<"i", "1">>, !.item_name = <<"A">>,
        !.quantity = <<"1">>]

\* An event of another day, on item i2, whose name differs from page_view by
\* case only.
OtherNameRow ==
    [EventRow(<<"P", "a", "g", "e", "_", "V", "i", "e", "w">>, <<"u", "2">>,
              Stamp2) EXCEPT !.event_date = Jan16, !.source = None,
                             !.item_id = <<"i", "2">>]

\* A page view whose user id is a null marker.
NoUserRow ==
    EventRow(page_view, <<"(", "n", "o", "t", " ", "s", "e", "t", ")">>, Stamp1)

\* A purchase whose quantity is no number.
BadQuantityRow ==
    [EventRow(purchase, <<"u", "1">>, Stamp1) EXCEPT
        !.item_id = <<"i", "1">>, !.quantity = <<"x">>]

RowKinds ==
    { PageViewRow, ParamRow, Purchase1, Purchase2, SepViewRow, SepItemRow,
      OtherNameRow, NoUserRow, BadQuantityRow, NextDayViewRow }

\* The frames pd.read_csv can hand over: up to MaxRows rows.
Frames == UNION {[1..n -> RowKinds] : n \in 0..MaxRows}

\* transform_data is entered with a frame as the first usable dataframe.
PassInit ==
    /\ df \in Frames
    /\ filled = <<>>
    /\ kept = <<>>
    /\ row_no = 0
    /\ agg = EmptyAcc
    /\ agg_before = EmptyAcc
    /\ pass_out = EmptyData
    /\ pass_pc = "start"

InitPass == SchedInit /\ EtlInit /\ PassInit

\* `if df is None:` return the four empty lists.
PassNoData ==
    /\ pass_pc = "start"
    /\ FirstUsable(<<df>>) = <<>>
    /\ pass_out' = EmptyData
    /\ pass_pc' = "returned"
    /\ UNCHANGED <<etlVars, schedVars, df, filled, kept, row_no, agg, agg_before>>

\* The three ffill assignments and event_df = df[df['event_name'].notna()].
PassFill ==
    /\ pass_pc = "start"
    /\ FirstUsable(<<df>>) # <<>>
    /\ filled' = FilledRows(df)
    /\ kept' = event_df(df)
    /\ pass_pc' = "loop"
    /\ UNCHANGED <<etlVars, schedVars, df, row_no, agg, agg_before, pass_out>>

\* What the loop does with the outcome a of one iteration: an exception
\* leaves transform_data.
AfterRow(a) ==
    /\ agg' = a
    /\ pass_pc' = IF a.raised THEN "raised" ELSE "loop"

\* One iteration of `for _, row in event_df.iterrows()`.
PassRow ==
    /\ pass_pc = "loop"
    /\ row_no < Len(kept)
    /\ AfterRow(AggStep(agg, kept[row_no + 1], FloatColumns(df)))
    /\ agg_before' = agg
    /\ row_no' = row_no + 1
    /\ UNCHANGED <<etlVars, schedVars, df, filled, kept, pass_out>>

\* "Convert sets to counts" and return.
PassReturn ==
    /\ pass_pc = "loop"
    /\ row_no = Len(kept)
    /\ pass_out' = Finalize(agg).data
    /\ pass_pc' = "returned"
    /\ UNCHANGED <<etlVars, schedVars, df, filled, kept, row_no, agg, agg_before>>

PassNext ==
    \/ PassNoData
    \/ PassFill
    \/ PassRow
    \/ PassReturn

SpecPass == InitPass /\ [][PassNext]_vars

\* ------------------------------------------------------------------------
\* What the database holds for a run
\* ------------------------------------------------------------------------

RECURSIVE SumRows(_)
SumRows(batches) ==
    IF batches = {} THEN 0
    ELSE LET b == CHOOSE x \in batches : TRUE
         IN  b.rows + SumRows(batches \ {b})

\* SELECT COUNT(*) of the raw_events rows that run id inserted.
RawRows(t, id) == SumRows({b \in t.raw_events : b.run_id = id})

\* SELECT * FROM etl_runs WHERE run_id = id
RunRecords(t, id) == {r \in t.etl_runs : r.run_id = id}

\* load_data has left, by return or by raise, and run_etl still holds its locals.
LoadExited == loadExit # "none" /\ pc \in {"loaded", "catch", "done"}

\* load_data has left by the raise of its except clause.
LoadFailedInTry == LoadExited /\ loadExit = "raised" /\ failedAt.stage \in TryStages

\* A daily_metrics row without its updated_at column.
DailyColumns(r) ==
    [f \in DOMAIN r \ {"updated_at"} |-> r[f]]

\* The three aggregate tables, updated_at aside.
Aggregates(t) ==
    [daily_metrics |-> {DailyColumns(r) : r \in t.daily_metrics},
     traffic_source_metrics |-> t.traffic_source_metrics,
     product_metrics |-> t.product_metrics]

\* UNIQUE (metric_date); UNIQUE (metric_date, source, medium);
\* UNIQUE (metric_date, item_id)
OneRowPerKey(t) ==
    /\ \A r, q \in t.daily_metrics : r.metric_date = q.metric_date => r = q
    /\ \A r, q \in t.traffic_source_metrics :
          (r.metric_date = q.metric_date /\ r.source = q.source
           /\ r.medium = q.medium) => r = q
    /\ \A r, q \in t.product_metrics :
          (r.metric_date = q.metric_date /\ r.item_id = q.item_id) => r = q

\* The table holds a row equal to the record on every field of the record.
Stored(table, rec) ==
    \E r \in table : \A f \in DOMAIN rec : r[f] = rec[f]

\* ------------------------------------------------------------------------
\* Claims
\* ------------------------------------------------------------------------

\* C1: if a write inside load_data's try block fails, then when load_data has
\* exited the persisted run record of that invocation has status 'failed' and
\* carries the error message.  The code does not do this: a failure before
\* the first commit rolls the run record's INSERT back.
C1_FailedRecordPersisted ==
    LoadFailedInTry =>
        \E r \in RunRecords(db, run_id) :
            r.status = "failed" /\ r.error_message = exc

\* C2: after load_data returns or raises, the run record it created exists and
\* is not in status 'running'.  The code does not do this: after a failure
\* before the first commit no record exists.
C2_RecordTerminal ==
    (LoadExited /\ failedAt.stage # "load") =>
        /\ RunRecords(db, run_id) # {}
        /\ \A r \in RunRecords(db, run_id) : r.status # "running"

\* C3: on a fully successful run the run record is 'completed' with
\* rows_processed equal to the number of events transform_data emitted, which
\* is also the event count run_etl returns and the number of raw_events rows
\* the run appended.
C3_RowCountsAgree ==
    (pc = "done" /\ result.success) =>
        /\ Cardinality(RunRecords(db, run_id)) = 1
        /\ \A r \in RunRecords(db, run_id) :
              r.status = "completed" /\ r.rows_processed = Len(data.events)
        /\ result.events = Len(data.events)
        /\ RawRows(db, run_id) = Len(data.events)

C3_Witness ==
    /\ pc = "done"
    /\ result.success
    /\ Len(data.events) > batch_size
    /\ RawRows(db, run_id) = Len(data.events)

\* C4: the raw-event append is atomic across its batches: once load_data has
\* exited, raw_events holds all of the run's events or none of them.
C4_RawAppendAtomic ==
    LoadExited => RawRows(db, run_id) \in {0, Len(data.events)}

C4_Witness ==
    /\ LoadFailedInTry
    /\ failedAt.stage = "raw"
    /\ failedAt.i >= batch_size
    /\ failedAt.i < Len(data.events)
    /\ RawRows(db, run_id) = 0

\* C5: when a write fails during load, none of the raw-event, daily, traffic
\* or product writes of the failed run remain persisted.  The code does not do
\* this: each stage commits, and the rollback undoes the failing stage only.
C5_FailedRunLeavesNothing ==
    LoadFailedInTry =>
        /\ RawRows(db, run_id) = 0
        /\ db.daily_metrics = loadStart.daily_metrics
        /\ db.traffic_source_metrics = loadStart.traffic_source_metrics
        /\ db.product_metrics = loadStart.product_metrics

\* C6: after the upsert of a finalized daily, traffic or product record the
\* stored row for its key equals the record on all of its fields.  The code
\* does not do this: its ON CONFLICT clauses leave columns out.
C6_UpsertOverwritesAll ==
    (pc = "refresh") =>
        /\ \A n \in 1..Len(data.daily_metrics) :
              Stored(db.daily_metrics, data.daily_metrics[n])
        /\ \A n \in 1..Len(data.traffic_metrics) :
              Stored(db.traffic_source_metrics, data.traffic_metrics[n])
        /\ \A n \in 1..Len(data.product_metrics) :
              Stored(db.product_metrics, data.product_metrics[n])

\* C7: a load_data call with the same finalized records as the load_data call
\* before it leaves the daily, traffic and product tables as that call left
\* them (updated_at aside), with one row per natural key.
C7_SecondLoadChangesNothing ==
    (pc = "done" /\ loadExit = "returned" /\ prevMetrics = MetricsOf(data)) =>
        /\ Aggregates(db) = Aggregates(loadStart)
        /\ OneRowPerKey(db)

C7_Witness ==
    /\ pc = "done"
    /\ loadExit = "returned"
    /\ prevMetrics = MetricsOf(data)
    /\ Len(data.daily_metrics) > 0
    /\ Len(data.traffic_metrics) > 0
    /\ Len(data.product_metrics) > 0
    /\ Aggregates(db) = Aggregates(loadStart)

\* C8: run_etl never raises to its caller: whatever raised in extract,
\* transform or load, it returns success=True with the event count or
\* success=False with the error text.
C8_RunEtlAlwaysReturns ==
    /\ pc # "raised"
    /\ pc = "done" =>
          /\ result.returned
          /\ \/ /\ result.success
                /\ result.keys = {"success", "events"}
                /\ result.events = Len(data.events)
             \/ /\ ~result.success
                /\ result.keys = {"success", "error"}
                /\ result.error = exc
                /\ exc # NullText

C8_Witness ==
    /\ pc = "done"
    /\ loadExit = "raised"
    /\ failedAt.stage \in TryStages
    /\ result.returned
    /\ ~result.success
    /\ result.error \in WriteErrors

\* C9: when acquisition yields no usable table (no dataframe, or only empty
\* ones) run_etl returns success=False and the run record is not 'completed'.
\* The code does not do this: it loads the empty result and reports success.
C9_NoTablesFails ==
    (pc = "done" /\ exc # DownloadError /\ FirstUsable(dataframes) = <<>>) =>
        /\ ~result.success
        /\ \A r \in RunRecords(db, run_id) : r.status # "completed"

\* C10: two run_etl executions started by ETLScheduler.job and
\* ETLScheduler.run_manual never overlap.  The code does not do this:
\* run_manual never sets `running`, and job tests and sets it in two steps.
C10_OneInFlight ==
    Cardinality({c \in inflight : at[c] \in {"job_run", "manual_run"}}) <= 1

\* Caller c is inside job between `self.running = True` and the end of the
\* finally clause.
JobInProgress(c) == at[c] \in {"job_run", "job_finally"}

\* C21: job always releases its guard.  When a caller that started a run
\* leaves job, whether run_etl returned success, returned failure or raised,
\* `running` is False and last_run and last_result are set; and `running` is
\* never True while no job is between setting it and its finally clause, so
\* a finished run, failed or not, never makes a later job call skip.
C21_GuardReleased ==
    /\ [](running => \E c \in Callers : JobInProgress(c))
    /\ [][\A c \in Callers :
            (JobInProgress(c) /\ at'[c] = "idle") =>
                /\ ~running'
                /\ last_run' # "None"
                /\ last_result' # "None"]_vars

\* A run that raised has returned, the flag is down, and a later job call has
\* passed the `if self.running` test while nobody else is inside job.
C21_Witness ==
    /\ last_result = "Raised"
    /\ last_run = "datetime"
    /\ ~running
    /\ \E c \in Callers :
        /\ at[c] = "job_set"
        /\ \A d \in Callers \ {c} : at[d] = "idle"

\* ------------------------------------------------------------------------
\* Claims on transform_data
\* ------------------------------------------------------------------------

\* The columns the three ffill assignments touch.
FillColumns == {"event_name", "user_pseudo_id", "event_timestamp"}

\* The frame has been through the ffill assignments.
Filled == pass_pc \in {"loop", "raised", "returned"} /\ Len(df) > 0

\* The rows up to row n that define the column.
DefinedUpTo(n, col) == {j \in 1..n : df[j][col] # None}

Last(S) == CHOOSE j \in S : \A m \in S : m <= j

\* C11: after the forward-fill, in row order, each of event name, user id and
\* event timestamp that is absent on a row has the value of the nearest
\* preceding row that defines it (and stays absent when there is none); a
\* present field keeps its value; no other column changes.
C11_ForwardFill ==
    Filled =>
        /\ Len(filled) = Len(df)
        /\ \A n \in 1..Len(df) :
              /\ \A col \in FillColumns :
                    filled[n][col] =
                        IF DefinedUpTo(n, col) = {} THEN None
                        ELSE df[Last(DefinedUpTo(n, col))][col]
              /\ \A col \in Columns \ FillColumns : filled[n][col] = df[n][col]

C11_Witness ==
    /\ Filled
    /\ Len(df) = 3
    /\ df[1].event_name = page_view
    /\ df[2].event_name = None
    /\ df[3].event_name = None
    /\ filled[3].event_name = page_view
    /\ filled[3].user_pseudo_id = df[1].user_pseudo_id

\* The rows of the filled frame that have an event name and a user id.
Qualifies(n) ==
    /\ filled[n].event_name # None
    /\ OrElse(clean_val(filled[n].user_pseudo_id), None) # None

\* The rows of event_df the loop has been through without raising.
Processed == IF pass_pc = "raised" THEN row_no - 1 ELSE row_no

\* The qualifying rows among the first m rows of event_df.
QualifiedIn(m) ==
    {n \in 1..m : OrElse(clean_val(kept[n].user_pseudo_id), None) # None}

\* The daily page_views, over all dates.
RECURSIVE TotalPageViews(_, _)
TotalPageViews(list, n) ==
    IF n = 0 THEN 0 ELSE list[n].page_views + TotalPageViews(list, n - 1)

Emitted ==
    /\ pass_pc = "loop"
    /\ row_no > 0
    /\ Len(agg.all_events) = Len(agg_before.all_events) + 1

LastEvent == agg.all_events[Len(agg.all_events)]

\* Between two states of a dict the accumulator under key was created or
\* changed, and nothing else: the other keys and their accumulators stay, in
\* place.
TouchesOnly(old, new, key) ==
    /\ Has(new, key)
    /\ Len(new.keys) = Len(old.keys) + (IF Has(old, key) THEN 0 ELSE 1)
    /\ \A n \in 1..Len(old.keys) :
          /\ new.keys[n] = old.keys[n]
          /\ old.keys[n] # key => new.val[n] = old.val[n]

DailyCounters ==
    {"page_views", "revenue", "purchases", "view_items", "add_carts", "checkouts"}

TrafficCounters == {"page_views", "transactions", "revenue"}

ProductCounters ==
    {"views", "add_to_carts", "purchases", "revenue", "quantity_sold"}

\* Every accumulator of the old dicts is in the new ones, with counters not
\* smaller and sets not smaller.
OnlyAddedTo(old, new) ==
    /\ \A n \in 1..Len(old.daily_metrics.keys) :
          LET o == old.daily_metrics.val[n]
              v == new.daily_metrics.val[n]
          IN  /\ o.metric_date = v.metric_date
              /\ o.sessions \subseteq v.sessions
              /\ o.users \subseteq v.users
              /\ o.transactions \subseteq v.transactions
              /\ \A f \in DailyCounters : o[f] <= v[f]
    /\ \A n \in 1..Len(old.traffic_metrics.keys) :
          LET o == old.traffic_metrics.val[n]
              v == new.traffic_metrics.val[n]
          IN  /\ o.metric_date = v.metric_date
              /\ o.source = v.source
              /\ o.medium = v.medium
              /\ o.sessions \subseteq v.sessions
              /\ o.users \subseteq v.users
              /\ \A f \in TrafficCounters : o[f] <= v[f]
    /\ \A n \in 1..Len(old.product_metrics.keys) :
          LET o == old.product_metrics.val[n]
              v == new.product_metrics.val[n]
          IN  /\ o.metric_date = v.metric_date
              /\ o.item_id = v.item_id
              /\ \A f \in ProductCounters : o[f] <= v[f]

\* C13: in the aggregation loop an emitted event creates or updates the daily
\* accumulator of its date, the traffic accumulator of its date|source|medium
\* key and, when it has an item id, the product accumulator of its
\* date|item_id key; no other accumulator changes, an iteration that emits
\* nothing changes none, and accumulators are only created or added to.
C13_OneAccumulatorEach ==
    (pass_pc \in {"loop", "raised"} /\ row_no > 0) =>
        /\ OnlyAddedTo(agg_before, agg)
        /\ IF Emitted
           THEN /\ TouchesOnly(agg_before.daily_metrics, agg.daily_metrics,
                               LastEvent.event_date)
                /\ Get(agg.daily_metrics, LastEvent.event_date).metric_date
                      = LastEvent.event_date
                /\ TouchesOnly(agg_before.traffic_metrics, agg.traffic_metrics,
                               TrafficKey(LastEvent.event_date,
                                          LastEvent.traffic_source,
                                          LastEvent.traffic_medium))
                /\ IF LastEvent.item_id # None
                   THEN /\ TouchesOnly(agg_before.product_metrics,
                                       agg.product_metrics,
                                       ProductKey(LastEvent.event_date,
                                                  LastEvent.item_id))
                        /\ Get(agg.product_metrics,
                               ProductKey(LastEvent.event_date,
                                          LastEvent.item_id)).item_id
                              = LastEvent.item_id
                   ELSE agg.product_metrics = agg_before.product_metrics
           ELSE /\ agg.daily_metrics = agg_before.daily_metrics
                /\ agg.traffic_metrics = agg_before.traffic_metrics
                /\ agg.product_metrics = agg_before.product_metrics

C13_Witness ==
    /\ Emitted
    /\ row_no = 3
    /\ Len(agg_before.daily_metrics.keys) = 2
    /\ Len(agg.daily_metrics.keys) = 2
    /\ agg.daily_metrics.val[1] = agg_before.daily_metrics.val[1]
    /\ agg.daily_metrics.val[2] # agg_before.daily_metrics.val[2]
    /\ Len(agg.traffic_metrics.keys) = 2
    /\ Len(agg.product_metrics.keys) = 1
    /\ agg.product_metrics = agg_before.product_metrics

\* transform_data has returned the finalized lists of a frame with rows.
Returned == pass_pc = "returned" /\ Len(df) > 0

\* The emitted events of one date.
EventsOn(date) ==
    {n \in 1..Len(pass_out.events) : pass_out.events[n].event_date = date}

\* The finalized daily records of a date.
DailyOn(date) ==
    {n \in 1..Len(pass_out.daily_metrics) :
        pass_out.daily_metrics[n].metric_date = date}

\* C14: for every date of the emitted events there is one finalized daily
\* record; its sessions is the number of distinct session ids (user id, "_",
\* first 10 characters of the timestamp) among that date's events and its
\* total_users the number of distinct user ids.
C14_DistinctCounts ==
    Returned =>
        /\ \A n \in 1..Len(pass_out.events) :
              LET e == pass_out.events[n]
              IN  /\ e.session_id
                        = e.user_pseudo_id \o <<"_">> \o Prefix(e.event_timestamp, 10)
                  /\ Cardinality(DailyOn(e.event_date)) = 1
        /\ \A n \in 1..Len(pass_out.daily_metrics) :
              LET d == pass_out.daily_metrics[n]
              IN  /\ d.sessions =
                        Cardinality({pass_out.events[m].session_id :
                                        m \in EventsOn(d.metric_date)})
                  /\ d.total_users =
                        Cardinality({pass_out.events[m].user_pseudo_id :
                                        m \in EventsOn(d.metric_date)})

C14_Witness ==
    /\ Returned
    /\ Len(pass_out.events) = 3
    /\ Cardinality({pass_out.events[m].session_id : m \in 1..3}) = 1
    /\ Cardinality({pass_out.events[m].event_name : m \in 1..3}) = 2
    /\ Len(pass_out.daily_metrics) = 1
    /\ pass_out.daily_metrics[1].sessions = 1
    /\ pass_out.daily_metrics[1].total_users = 1

\* The distinct transaction ids among a date's events.
TransactionsOn(date) ==
    {pass_out.events[m].transaction_id : m \in EventsOn(date)} \ {None}

\* C15: the finalized ratios are zero-guarded and computed from the finalized
\* counts: daily average_order_value is total_revenue over the number of
\* distinct transaction ids (0 without any), daily conversion_rate is
\* purchases over sessions times 100, traffic conversion_rate transactions
\* over sessions times 100 (0 without sessions).  Amounts are in hundredths.
C15_Ratios ==
    Returned =>
        /\ \A n \in 1..Len(pass_out.daily_metrics) :
              LET d == pass_out.daily_metrics[n]
                  t == Cardinality(TransactionsOn(d.metric_date))
              IN  /\ d.unique_purchases = t
                  /\ t = 0 => d.average_order_value = 0
                  /\ t > 0 =>
                        /\ 2 * t * d.average_order_value <= 2 * d.total_revenue + t
                        /\ 2 * d.total_revenue - t < 2 * t * d.average_order_value
                  /\ d.sessions = 0 => d.conversion_rate = 0
                  /\ d.sessions > 0 =>
                        /\ 2 * d.sessions * d.conversion_rate
                              <= 2 * 10000 * d.transactions + d.sessions
                        /\ 2 * 10000 * d.transactions - d.sessions
                              < 2 * d.sessions * d.conversion_rate
        /\ \A n \in 1..Len(pass_out.traffic_metrics) :
              LET r == pass_out.traffic_metrics[n]
              IN  /\ r.sessions = 0 => r.conversion_rate = 0
                  /\ r.sessions > 0 =>
                        /\ 2 * r.sessions * r.conversion_rate
                              <= 2 * 10000 * r.transactions + r.sessions
                        /\ 2 * 10000 * r.transactions - r.sessions
                              < 2 * r.sessions * r.conversion_rate
        /\ (df = <<Purchase1, Purchase2>>) =>
              /\ Len(pass_out.daily_metrics) = 1
              /\ pass_out.daily_metrics[1].transactions = 2
              /\ pass_out.daily_metrics[1].total_revenue = 3000
              /\ pass_out.daily_metrics[1].average_order_value = 1500

C15_Witness ==
    /\ Returned
    /\ df = <<Purchase1, Purchase2>>
    /\ pass_out.daily_metrics[1].transactions = 2
    /\ pass_out.daily_metrics[1].total_revenue = 3000
    /\ pass_out.daily_metrics[1].average_order_value = 1500
    /\ pass_out.daily_metrics[1].conversion_rate = 10000

\* The product revenue of a date, summed over the finalized product records.
RECURSIVE ProductRevenueOn(_, _)
ProductRevenueOn(date, n) ==
    IF n = 0 THEN 0
    ELSE (IF pass_out.product_metrics[n].metric_date = date
          THEN pass_out.product_metrics[n].revenue ELSE 0)
         + ProductRevenueOn(date, n - 1)

\* C16: for every date whose purchase events all carry an item id, the
\* product revenues of the date add up to the daily total_revenue.  The code
\* does not do this: the daily total adds the purchase_revenue column, the
\* product revenue the item_revenue column.
C16_RevenueConserved ==
    Returned =>
        \A n \in 1..Len(pass_out.daily_metrics) :
            LET d == pass_out.daily_metrics[n]
            IN  (\A m \in EventsOn(d.metric_date) :
                    pass_out.events[m].event_name = purchase
                        => pass_out.events[m].item_id # None)
                => ProductRevenueOn(d.metric_date, Len(pass_out.product_metrics))
                      = d.total_revenue

\* text that is neither absent nor a number
Malformed(cell) == cell # None /\ ~IsFloatLiteral(cell)

\* C17: a malformed quantity in one row never aborts the pass: transform_data
\* still returns.  The code does not do this: int() of the text raises
\* ValueError and nothing catches it inside transform_data.
C17_MalformedFieldTolerated ==
    (\E n \in 1..Len(df) : Malformed(df[n].quantity)) => pass_pc # "raised"

\* The event names the loop counts.
Vocabulary == {page_view, purchase, view_item, add_to_cart, begin_checkout}

\* C18: an emitted event whose name is not, character for character, one of
\* the five counted names leaves the event-type counters of its daily, traffic
\* and product accumulators as they were (0 in an accumulator it creates), and
\* its session id and user id are in the daily and traffic sets.
C18_UnknownNameCountsNothing ==
    (Emitted /\ LastEvent.event_name \notin Vocabulary) =>
        LET e == LastEvent
            tkey == TrafficKey(e.event_date, e.traffic_source, e.traffic_medium)
            pkey == ProductKey(e.event_date, e.item_id)
            d0 == Lookup(agg_before.daily_metrics, e.event_date,
                         NewDaily(e.event_date))
            d1 == Get(agg.daily_metrics, e.event_date)
            t0 == Lookup(agg_before.traffic_metrics, tkey,
                         NewTraffic(e.event_date, e.traffic_source,
                                    e.traffic_medium))
            t1 == Get(agg.traffic_metrics, tkey)
        IN  /\ \A f \in DailyCounters \ {"revenue"} : d1[f] = d0[f]
            /\ \A f \in TrafficCounters \ {"revenue"} : t1[f] = t0[f]
            /\ e.session_id \in d1.sessions /\ e.user_pseudo_id \in d1.users
            /\ e.session_id \in t1.sessions /\ e.user_pseudo_id \in t1.users
            /\ e.item_id # None =>
                  \A f \in ProductCounters :
                      Get(agg.product_metrics, pkey)[f]
                          = Lookup(agg_before.product_metrics, pkey,
                                   NewProduct(e.event_date, e.item_id,
                                              e.item_name))[f]

C18_Witness ==
    /\ Emitted
    /\ row_no = 3
    /\ LastEvent.event_name = <<"P", "a", "g", "e", "_", "V", "i", "e", "w">>
    /\ LastEvent.item_id # None
    /\ Has(agg_before.daily_metrics, LastEvent.event_date)
    /\ Get(agg_before.daily_metrics, LastEvent.event_date).page_views = 1
    /\ Get(agg.daily_metrics, LastEvent.event_date).page_views = 1
    /\ Has(agg_before.product_metrics,
           ProductKey(LastEvent.event_date, LastEvent.item_id))

\* The finalized traffic records of a date.
TrafficOn(date) ==
    {n \in 1..Len(pass_out.traffic_metrics) :
        pass_out.traffic_metrics[n].metric_date = date}

\* The sum of one field over the finalized traffic records with index in S.
RECURSIVE TrafficSum(_, _)
TrafficSum(S, f) ==
    IF S = {} THEN 0
    ELSE LET n == CHOOSE m \in S : TRUE
         IN  pass_out.traffic_metrics[n][f] + TrafficSum(S \ {n}, f)

\* C19: for every date the traffic records of the date add up to the daily
\* record in page_views, in transactions (the daily count of purchase events)
\* and in revenue, and their sessions add up to at least the daily sessions.
C19_TrafficAddsUpToDaily ==
    Returned =>
        \A n \in 1..Len(pass_out.daily_metrics) :
            LET d == pass_out.daily_metrics[n]
                T == TrafficOn(d.metric_date)
            IN  /\ TrafficSum(T, "page_views") = d.page_views
                /\ TrafficSum(T, "transactions") = d.transactions
                /\ TrafficSum(T, "revenue") = d.total_revenue
                /\ TrafficSum(T, "sessions") >= d.sessions

C19_Witness ==
    /\ Returned
    /\ Len(pass_out.daily_metrics) = 1
    /\ Cardinality(TrafficOn(pass_out.daily_metrics[1].metric_date)) = 2
    /\ pass_out.daily_metrics[1].page_views = 1
    /\ pass_out.daily_metrics[1].transactions = 1
    /\ pass_out.daily_metrics[1].total_revenue = 1000
    /\ \E n \in 1..2 : pass_out.traffic_metrics[n].revenue = 0

\* C20: events are folded into one traffic accumulator only when their date,
\* source and medium are the same: every emitted event has a finalized traffic
\* record with its date, source and medium, and a product record with its
\* date and item id when it has one, and no two records share a natural key.
\* The code does not do this: it keys the traffic accumulators by
\* date|source|medium, which 'a|b','c' and 'a','b|c' share.
C20_KeysInjective ==
    Returned =>
        /\ \A n \in 1..Len(pass_out.events) :
              LET e == pass_out.events[n]
              IN  /\ \E m \in 1..Len(pass_out.traffic_metrics) :
                        /\ pass_out.traffic_metrics[m].metric_date = e.event_date
                        /\ pass_out.traffic_metrics[m].source = e.traffic_source
                        /\ pass_out.traffic_metrics[m].medium = e.traffic_medium
                  /\ e.item_id # None =>
                        \E m \in 1..Len(pass_out.product_metrics) :
                            /\ pass_out.product_metrics[m].metric_date = e.event_date
                            /\ pass_out.product_metrics[m].item_id = e.item_id
        /\ \A n, m \in 1..Len(pass_out.traffic_metrics) :
              (/\ pass_out.traffic_metrics[n].metric_date
                     = pass_out.traffic_metrics[m].metric_date
               /\ pass_out.traffic_metrics[n].source
                     = pass_out.traffic_metrics[m].source
               /\ pass_out.traffic_metrics[n].medium
                     = pass_out.traffic_metrics[m].medium) => n = m
        /\ \A n, m \in 1..Len(pass_out.product_metrics) :
              (/\ pass_out.product_metrics[n].metric_date
                     = pass_out.product_metrics[m].metric_date
               /\ pass_out.product_metrics[n].item_id
                     = pass_out.product_metrics[m].item_id) => n = m

====
